---- MODULE Spec2Model ----
(***************************************************************************)
(* Model of src/core/engine-resolver.ts (class EngineResolver): discovery  *)
(* of engine installations (registry, launcher manifest, environment),     *)
(* de-duplication, version loading, and resolution of a project's engine.  *)
(*                                                                         *)
(* Strings are sequences of fragments.  Paths are sequences of single      *)
(* characters, so that normalisation, lower-casing, the version regular    *)
(* expression, split and parseInt are computed character by character.     *)
(* Identifiers and messages are sequences of longer fragments built by     *)
(* concatenation exactly where the code builds them with templates.        *)
(***************************************************************************)
EXTENDS Integers, Sequences, FiniteSets, TLC

(***************************************************************************)
(* JavaScript values.                                                      *)
(***************************************************************************)
\* `undefined` for object-valued slots (version, association, engine).
Undefined == [undefined |-> TRUE]
\* `undefined` in a slot that holds a string (InstallLocation that is missing).
UndefinedStr == <<"undefined">>
\* NaN, the result of parseInt on a segment without leading digits.
NaN == -1

\* Truthiness of a string value: undefined and "" are falsy.
Truthy(s) == s # UndefinedStr /\ s # <<>>

\* a || b on strings.
OrElse(a, b) == IF Truthy(a) THEN a ELSE b

\* n || d on numbers: NaN and 0 are falsy.
NumOrElse(n, d) == IF n = NaN \/ n = 0 THEN d ELSE n

(***************************************************************************)
(* Characters.                                                             *)
(***************************************************************************)
Digits == {"0", "1", "2", "3", "4", "5", "6", "7", "8", "9"}

DigitVal(c) ==
  CASE c = "0" -> 0 [] c = "1" -> 1 [] c = "2" -> 2 [] c = "3" -> 3
    [] c = "4" -> 4 [] c = "5" -> 5 [] c = "6" -> 6 [] c = "7" -> 7
    [] c = "8" -> 8 [] c = "9" -> 9

\* String.prototype.toLowerCase on one character of the path alphabet.
LowerChar(c) ==
  CASE c = "U" -> "u" [] c = "E" -> "e" [] OTHER -> c

ToLowerCase(s) == [i \in 1..Len(s) |-> LowerChar(s[i])]

\* s.slice(from - 1, to): characters from..to (1-based, inclusive).
Slice(s, from, to) == SubSeq(s, from, to)

RECURSIVE Split(_, _)
\* String.prototype.split(sep) for a one-character separator.
Split(s, sep) ==
  IF \A i \in 1..Len(s) : s[i] # sep
  THEN <<s>>
  ELSE LET k == CHOOSE i \in 1..Len(s) :
                  s[i] = sep /\ \A j \in 1..(i - 1) : s[j] # sep
       IN <<Slice(s, 1, k - 1)>> \o Split(Slice(s, k + 1, Len(s)), sep)

\* String.prototype.replace(from, to) with string arguments: first occurrence only.
ReplaceFirst(s, from, to) ==
  IF \A i \in 1..Len(s) : s[i] # from
  THEN s
  ELSE LET k == CHOOSE i \in 1..Len(s) :
                  s[i] = from /\ \A j \in 1..(i - 1) : s[j] # from
       IN [i \in 1..Len(s) |-> IF i = k THEN to ELSE s[i]]

\* Length of the run of digits of s that starts at position i (0 when none).
RECURSIVE DigitRun(_, _)
DigitRun(s, i) ==
  IF i <= Len(s) /\ s[i] \in Digits THEN 1 + DigitRun(s, i + 1) ELSE 0

RECURSIVE DigitsValue(_, _)
DigitsValue(s, acc) ==
  IF s = <<>> THEN acc ELSE DigitsValue(Tail(s), 10 * acc + DigitVal(Head(s)))

\* parseInt(s): the leading digits of s, NaN when there are none or s is undefined.
ParseInt(s) ==
  IF s = UndefinedStr \/ DigitRun(s, 1) = 0
  THEN NaN
  ELSE DigitsValue(Slice(s, 1, DigitRun(s, 1)), 0)

\* arr[i] of a JavaScript array (0-based); undefined past the end.
At(arr, i) == IF i + 1 <= Len(arr) THEN arr[i + 1] ELSE UndefinedStr

(***************************************************************************)
(* path.normalize (src/core/engine-resolver.ts:340).  The model's paths    *)
(* use "/" as their only separator and carry no drive letter; on such      *)
(* paths the win32 and posix algorithms agree up to the separator they     *)
(* print, so equality of normalised paths is the same under both.          *)
(***************************************************************************)
RECURSIVE NormalizeSegments(_, _, _)
\* The segment walk of path.normalize: "" and "." are dropped, ".." removes the
\* segment before it (and is kept in front of a relative path).
NormalizeSegments(segs, out, isAbsolute) ==
  IF segs = <<>> THEN out
  ELSE LET seg == Head(segs)
           rest == Tail(segs)
       IN IF seg = <<>> \/ seg = <<".">>
          THEN NormalizeSegments(rest, out, isAbsolute)
          ELSE IF seg = <<".", ".">>
          THEN IF out # <<>> /\ out[Len(out)] # <<".", ".">>
               THEN NormalizeSegments(rest, Slice(out, 1, Len(out) - 1), isAbsolute)
               ELSE IF isAbsolute
                    THEN NormalizeSegments(rest, out, isAbsolute)
                    ELSE NormalizeSegments(rest, Append(out, seg), isAbsolute)
          ELSE NormalizeSegments(rest, Append(out, seg), isAbsolute)

RECURSIVE Join(_, _)
\* segs.join(sep)
Join(segs, sep) ==
  IF segs = <<>> THEN <<>>
  ELSE IF Len(segs) = 1 THEN segs[1]
  ELSE segs[1] \o <<sep>> \o Join(Tail(segs), sep)

\* path.normalize(p) for a string p.
Normalize(p) ==
  IF p = <<>> THEN <<".">>
  ELSE LET isAbsolute == p[1] = "/"
           trailing == p[Len(p)] = "/"
           body == Join(NormalizeSegments(Split(p, "/"), <<>>, isAbsolute), "/")
       IN IF body = <<>>
          THEN (IF isAbsolute THEN <<"/">>
                ELSE IF trailing THEN <<".", "/">> ELSE <<".">>)
          ELSE LET root == IF isAbsolute THEN <<"/">> ELSE <<>>
                   tail == IF trailing THEN <<"/">> ELSE <<>>
               IN (root \o body) \o tail

(***************************************************************************)
(* The path heuristic of loadEngineVersionInfo (line 311): the regular     *)
(* expression "UE_", then "5" or "4", then an optional "." or "_", then    *)
(* capture group 1: a run of digits followed by any number of groups of    *)
(* one "." or "_" and a run of digits.  Case-insensitive, unanchored.      *)
(***************************************************************************)
Separators == {".", "_"}

RECURSIVE GroupEnd(_, _)
\* The repeated separator-and-digits groups from position i (the first position
\* after a digit run): the position after the last repetition.  Greedy; nothing follows the group in
\* the expression, so the longest repetition is the match.
GroupEnd(s, i) ==
  IF i <= Len(s) /\ s[i] \in Separators /\ DigitRun(s, i + 1) > 0
  THEN GroupEnd(s, i + 1 + DigitRun(s, i + 1))
  ELSE i

\* Where capture group 1 starts when the expression matches at position i, 0
\* when it does not match there.  The optional separator is tried first with the separator; when
\* the character after "5"/"4" is a separator the attempt without it fails too
\* (a separator is no digit).
GroupStartAt(s, i) ==
  IF /\ i + 3 <= Len(s)
     /\ s[i] \in {"U", "u"}
     /\ s[i + 1] \in {"E", "e"}
     /\ s[i + 2] = "_"
     /\ s[i + 3] \in {"5", "4"}
  THEN IF i + 4 <= Len(s) /\ s[i + 4] \in Separators
       THEN (IF DigitRun(s, i + 5) > 0 THEN i + 5 ELSE 0)
       ELSE (IF DigitRun(s, i + 4) > 0 THEN i + 4 ELSE 0)
  ELSE 0

\* installation.path.match(...): <<capture group 1>> of the leftmost match, or
\* <<>> for null.
PathMatch(p) ==
  IF p = UndefinedStr \/ \A i \in 1..Len(p) : GroupStartAt(p, i) = 0
  THEN <<>>
  ELSE LET i == CHOOSE k \in 1..Len(p) :
                  GroupStartAt(p, k) # 0 /\ \A j \in 1..(k - 1) : GroupStartAt(p, j) = 0
           g == GroupStartAt(p, i)
       IN <<Slice(p, g, GroupEnd(p, g + DigitRun(p, g)) - 1)>>

(***************************************************************************)
(* Source probes.                                                          *)
(***************************************************************************)
\* An EngineInstallation as the probes create it.
Installation(path, associationId, displayName) ==
  [path |-> path, associationId |-> associationId,
   displayName |-> displayName, version |-> Undefined]

\* One trimmed line of the registry query's output, by the parts the two
\* patterns of getEnginesFromRegistry look at:
\*   pre   - text before the "{" of the GUID (the line does not start with "{")
\*   guid  - the text between "{" and "}" ("" when the line has no {...})
\*   mid   - text other than white space between "}" and REG_SZ
\*   regsz - the line holds the REG_SZ marker
\*   path  - the text after REG_SZ and white space, trimmed (<<>> when none)
RegLine(pre, guid, mid, regsz, path) ==
  [pre |-> pre, guid |-> guid, mid |-> mid, regsz |-> regsz, path |-> path]

\* The installations one registry line yields (none or one).
ParseRegistryLine(l) ==
  LET fullMatch == l.guid # "" /\ ~l.mid /\ l.regsz /\ l.path # <<>>
      guidMatch == ~l.pre /\ l.guid # ""
      regSzMatch == l.regsz /\ l.path # <<>>
      guid == <<"{", l.guid, "}">>
  IN IF fullMatch \/ (guidMatch /\ regSzMatch)
     THEN <<Installation(l.path, guid, <<"UE Engine ">> \o guid)>>
     ELSE <<>>

RECURSIVE ParseRegistryLines(_)
ParseRegistryLines(lines) ==
  IF lines = <<>> THEN <<>>
  ELSE ParseRegistryLine(Head(lines)) \o ParseRegistryLines(Tail(lines))

\* getEnginesFromRegistry: out.failed is the query raising (no key, no reg
\* command); the catch block then returns what was collected: nothing.
GetEnginesFromRegistry(out) ==
  IF out.failed THEN <<>> ELSE ParseRegistryLines(out.lines)

\* An entry of a manifest's InstallationList; null is a JSON null in the list.
NullEntry == [null |-> TRUE]

ManifestEntry(appName, installLocation, displayName, appVersion) ==
  [AppName |-> appName, InstallLocation |-> installLocation,
   DisplayName |-> displayName, AppVersion |-> appVersion]

RECURSIVE ParseInstallationList(_)
\* The loop over manifest.InstallationList.  Reading AppName of a null entry
\* raises; the raise leaves the loop, and the installations pushed before it stay.
ParseInstallationList(entries) ==
  IF entries = <<>> THEN <<>>
  ELSE LET e == Head(entries)
       IN IF e = NullEntry THEN <<>>
          ELSE IF e.AppName = <<"UE_4">> \/ e.AppName = <<"UE_5">>
          THEN <<Installation(e.InstallLocation, e.AppName,
                              OrElse(e.DisplayName, <<"UE ">> \o e.AppVersion))>>
               \o ParseInstallationList(Tail(entries))
          ELSE ParseInstallationList(Tail(entries))

\* A manifest file: kind is "absent" (pathExists is false), "corrupt" (read or
\* JSON.parse raises), "nolist" (no InstallationList), "notarray"
\* (InstallationList is no array) or "list" (entries holds the array).
ManifestFile(kind, entries) == [kind |-> kind, entries |-> entries]

ParseManifest(m) ==
  IF m.kind = "list" THEN ParseInstallationList(m.entries) ELSE <<>>

RECURSIVE GetEnginesFromLauncher(_)
\* getEnginesFromLauncher over the manifest locations, in their fixed order.
GetEnginesFromLauncher(manifests) ==
  IF manifests = <<>> THEN <<>>
  ELSE ParseManifest(Head(manifests)) \o GetEnginesFromLauncher(Tail(manifests))

\* The variables getEngineFromEnvironment reads, in its order.
envVars == <<"UE_ENGINE_PATH", "UE_ROOT", "UNREAL_ENGINE_PATH">>

RECURSIVE EnvScan_IgnoresExistence(_, _, _)
\* Mutant of EnvScan: the pathExists test is dropped.
EnvScan_IgnoresExistence(env, existing, i) ==
  IF i > Len(envVars) THEN <<>>
  ELSE LET envVar == envVars[i]
           enginePath == env[envVar]
       IN IF Truthy(enginePath)
          THEN <<Installation(enginePath, <<"ENV_", envVar>>,
                              <<"UE Engine (from ", envVar, ")">>)>>
          ELSE EnvScan_IgnoresExistence(env, existing, i + 1)

RECURSIVE EnvScan(_, _, _)
\* The loop of getEngineFromEnvironment from variable number i on: <<installation>>
\* for the first variable with a truthy value that is an existing path, <<>> for
\* undefined.
EnvScan(env, existing, i) ==
  IF i > Len(envVars) THEN <<>>
  ELSE LET envVar == envVars[i]
           enginePath == env[envVar]
       IN IF Truthy(enginePath) /\ enginePath \in existing
          THEN <<Installation(enginePath, <<"ENV_", envVar>>,
                              <<"UE Engine (from ", envVar, ")">>)>>
          ELSE EnvScan(env, existing, i + 1)

GetEngineFromEnvironment(env, existing) == EnvScan(env, existing, 1)

(***************************************************************************)
(* removeDuplicateEngines.  The result is a list of positions of the input *)
(* list: the objects of uniqueInstallations are the objects of             *)
(* installations, and loadEngineVersionInfo later mutates them in place.   *)
(***************************************************************************)
\* The thrown TypeError of path.normalize on a value that is no string.
PathTypeError == <<"The \"path\" argument must be of type string. Received undefined">>

Throws(installations) ==
  \E i \in 1..Len(installations) : installations[i].path = UndefinedStr

\* Mutant of NormalizedPath: the lower-casing is dropped.
NormalizedPath_CaseSensitive(installation) == Normalize(installation.path)

NormalizedPath(installation) == ToLowerCase(Normalize(installation.path))

RECURSIVE DedupFrom(_, _, _, _)
DedupFrom(installations, i, seen, unique) ==
  IF i > Len(installations) THEN unique
  ELSE LET normalizedPath == NormalizedPath(installations[i])
       IN IF normalizedPath \notin seen
          THEN DedupFrom(installations, i + 1, seen \cup {normalizedPath},
                         Append(unique, i))
          ELSE DedupFrom(installations, i + 1, seen, unique)

\* Defined when ~Throws(installations).
RemoveDuplicateEngines(installations) == DedupFrom(installations, 1, {}, <<>>)

(***************************************************************************)
(* loadEngineVersionInfo.                                                  *)
(***************************************************************************)
VersionInfo(major, minor, patch, changelist) ==
  [MajorVersion |-> major, MinorVersion |-> minor, PatchVersion |-> patch,
   Changelist |-> changelist, CompatibleChangelist |-> 0,
   IsLicenseeVersion |-> 0, IsPromotedBuild |-> 0]

\* A version descriptor file: "absent", "corrupt" (read or parse raises) or
\* "json" (info holds the parsed EngineVersionInfo, an object with numeric
\* version fields as the EngineVersionInfo type declares).
VersionFile(kind, info) == [kind |-> kind, info |-> info]

\* The version of the path heuristic (lines 311-326), given capture group 1.
VersionFromPath(group) ==
  LET versionStr == ReplaceFirst(group, "_", ".")
      parts == Split(versionStr, ".")
  IN [version |-> VersionInfo(NumOrElse(ParseInt(At(parts, 0)), 5),
                              NumOrElse(ParseInt(At(parts, 1)), 0),
                              NumOrElse(ParseInt(At(parts, 2)), 0), 0),
      displayName |-> <<"UE ">> \o versionStr]

\* installation after loadEngineVersionInfo, given the two candidate version
\* files of its directory in the order the code tries them.
LoadEngineVersionInfo(installation, files) ==
  IF \E i \in 1..Len(files) : files[i].kind = "json"
  THEN LET i == CHOOSE k \in 1..Len(files) :
                  files[k].kind = "json" /\ \A j \in 1..(k - 1) : files[j].kind # "json"
           versionInfo == files[i].info
       IN [installation EXCEPT
             !.version = versionInfo,
             !.displayName = <<"UE ", ToString(versionInfo.MajorVersion), ".",
                               ToString(versionInfo.MinorVersion), ".",
                               ToString(versionInfo.PatchVersion)>>]
  ELSE LET pathMatch == PathMatch(installation.path)
       IN IF pathMatch # <<>>
          THEN [installation EXCEPT
                  !.version = VersionFromPath(pathMatch[1]).version,
                  !.displayName = VersionFromPath(pathMatch[1]).displayName]
          ELSE installation

(***************************************************************************)
(* compareVersions and the fallback sort.                                  *)
(***************************************************************************)
CompareVersions(a, b) ==
  IF a = Undefined /\ b = Undefined THEN 0
  ELSE IF a = Undefined THEN -1
  ELSE IF b = Undefined THEN 1
  ELSE IF a.MajorVersion # b.MajorVersion THEN a.MajorVersion - b.MajorVersion
  ELSE IF a.MinorVersion # b.MinorVersion THEN a.MinorVersion - b.MinorVersion
  ELSE IF a.PatchVersion # b.PatchVersion THEN a.PatchVersion - b.PatchVersion
  ELSE a.Changelist - b.Changelist

\* Mutant of SortComparator: the arguments are not swapped (oldest first).
SortComparator_Ascending(a, b) == CompareVersions(a.version, b.version)

\* The comparator handed to sort on line 43 (newest first).
SortComparator(a, b) == CompareVersions(b.version, a.version)

RECURSIVE InsertSorted_Unstable(_, _, _)
\* Mutant of InsertSorted: an element is put in front of its equals.
InsertSorted_Unstable(installations, sorted, x) ==
  IF sorted = <<>> THEN <<x>>
  ELSE IF CompareVersions(installations[Head(sorted)].version,
                          installations[x].version) <= 0
  THEN <<x>> \o sorted
  ELSE <<Head(sorted)>> \o InsertSorted_Unstable(installations, Tail(sorted), x)

RECURSIVE InsertSorted(_, _, _)
\* x put into the sorted list `sorted` behind every element it does not
\* precede under the comparator: Array.prototype.sort is stable.
InsertSorted(installations, sorted, x) ==
  IF sorted = <<>> THEN <<x>>
  ELSE IF SortComparator(installations[x], installations[Head(sorted)]) < 0
  THEN <<x>> \o sorted
  ELSE <<Head(sorted)>> \o InsertSorted(installations, Tail(sorted), x)

RECURSIVE SortFrom(_, _, _)
SortFrom(installations, order, sorted) ==
  IF order = <<>> THEN sorted
  ELSE SortFrom(installations, Tail(order),
                InsertSorted(installations, sorted, Head(order)))

\* engineInstallations.sort(comparator): the positions `order` rearranged.
Sort(installations, order) == SortFrom(installations, order, <<>>)

(***************************************************************************)
(* getEngineAssociationFromProject.                                        *)
(***************************************************************************)
\* What the reader finds at projectPath:
\*   isDirectory      - the path exists and is a directory
\*   uprojectFiles    - how many entries of that directory end in .uproject
\*   endsWithUproject - the path itself ends in .uproject
\*   file             - the descriptor: "unreadable" (readFile raises),
\*                      "corrupt" (JSON.parse raises) or "json"
\*   EngineAssociation - the field's value, UndefinedStr when the object has none
ProjectFs(isDirectory, uprojectFiles, endsWithUproject, file, engineAssociation) ==
  [isDirectory |-> isDirectory, uprojectFiles |-> uprojectFiles,
   endsWithUproject |-> endsWithUproject, file |-> file,
   EngineAssociation |-> engineAssociation]

ReaderResult(association, warnings) ==
  [association |-> association, warnings |-> warnings]

\* The truthiness test of line 97.
HasEngineAssociation(value) == Truthy(value)

GetEngineAssociationFromProject(fs) ==
  IF fs.isDirectory /\ fs.uprojectFiles = 0
  THEN ReaderResult(Undefined, << <<"No .uproject file found in project directory">> >>)
  ELSE IF ~fs.isDirectory /\ ~fs.endsWithUproject
  THEN ReaderResult(Undefined, << <<"Project path is not a .uproject file">> >>)
  ELSE IF fs.file = "unreadable"
  THEN ReaderResult(Undefined, << <<"Failed to read project file: ", "ENOENT">> >>)
  ELSE IF fs.file = "corrupt"
  THEN ReaderResult(Undefined, << <<"Failed to read project file: ", "Unexpected token">> >>)
  ELSE IF ~HasEngineAssociation(fs.EngineAssociation)
  THEN ReaderResult(Undefined, << <<"No EngineAssociation found in .uproject file">> >>)
  ELSE ReaderResult([guid |-> fs.EngineAssociation, name |-> fs.EngineAssociation], <<>>)

(***************************************************************************)
(* The match and fallback phases of resolveEngine (lines 28-52).           *)
(***************************************************************************)
\* Mutant of NotFoundWarning: the message does not name the guid.
NotFoundWarning_Unnamed(guid) ==
  <<"Engine with association ID ", " not found in installed engines">>

NotFoundWarning(guid) ==
  (<<"Engine with association ID ">> \o guid) \o <<" not found in installed engines">>

FallbackWarning(engine) ==
  (<<"Using engine ">> \o OrElse(engine.displayName, engine.associationId))
    \o <<" (not associated with project)">>

\* Mutant of FindMatch: the last installation with the guid instead of the first.
FindMatch_Last(installations, order, guid) ==
  IF \E k \in 1..Len(order) : installations[order[k]].associationId = guid
  THEN order[CHOOSE k \in 1..Len(order) :
               /\ installations[order[k]].associationId = guid
               /\ \A j \in (k + 1)..Len(order) :
                    installations[order[j]].associationId # guid]
  ELSE 0

\* engineInstallations.find(...): the first position of `order` whose
\* installation has the association's guid, 0 for undefined.
FindMatch(installations, order, guid) ==
  IF \E k \in 1..Len(order) : installations[order[k]].associationId = guid
  THEN order[CHOOSE k \in 1..Len(order) :
               /\ installations[order[k]].associationId = guid
               /\ \A j \in 1..(k - 1) : installations[order[j]].associationId # guid]
  ELSE 0

\* Mutant of TriesMatch: the test for an empty list is dropped.
TriesMatch_IgnoresEmptyList(association, order) == association # Undefined

\* The guard of line 30.
TriesMatch(association, order) == association # Undefined /\ Len(order) > 0

\* Lines 28-52 as one value: the array after the optional sort, and the result.
Resolution(association, installations, order, warnings0) ==
  LET matched1 == IF TriesMatch(association, order)
                  THEN FindMatch(installations, order, association.guid)
                  ELSE 0
      warnings1 == IF /\ TriesMatch(association, order)
                      /\ matched1 = 0
                      /\ Truthy(association.guid)
                   THEN Append(warnings0, NotFoundWarning(association.guid))
                   ELSE warnings0
      fallback == matched1 = 0 /\ Len(order) > 0
      sorted == IF fallback THEN Sort(installations, order) ELSE order
      matched2 == IF fallback THEN sorted[1] ELSE matched1
      warnings2 == IF fallback
                   THEN Append(warnings1, FallbackWarning(installations[matched2]))
                   ELSE warnings1
  IN [engineInstallations |-> sorted,
      fallback |-> fallback,
      result |-> [engine |-> IF matched2 = 0 THEN Undefined ELSE installations[matched2],
                  uprojectEngine |-> association,
                  warnings |-> warnings2,
                  error |-> UndefinedStr]]

\* The catch block of resolveEngine (lines 54-59).
ErrorResult(message, warnings0) ==
  [engine |-> Undefined, uprojectEngine |-> Undefined,
   warnings |-> warnings0, error |-> message]

(***************************************************************************)
(* Inputs: what the host may hold.  A universe u gives the sets the        *)
(* actions draw the host's answers from.                                   *)
(***************************************************************************)
\* Sequences over S of length at most n.
SeqsUpTo(S, n) == UNION {[1..k -> S] : k \in 0..n}

PathUE53 == <<"/", "U", "E", "_", "5", ".", "3">>
PathUe53 == <<"/", "u", "e", "_", "5", ".", "3">>
PathDotUE53 == <<"/", ".", "/", "U", "E", "_", "5", ".", "3">>
PathUE427 == <<"/", "U", "E", "_", "4", ".", "2", "7">>
PathUE5_4_1 == <<"/", "U", "E", "_", "5", "_", "4", "_", "1">>
PathUE5 == <<"/", "U", "E", "_", "5">>
PathE == <<"/", "e">>

GuidInstalled == <<"{", "G1", "}">>
GuidMissing == <<"{", "G9", "}">>

\* Registry lines: the one-line layout for every guid and path, and for one
\* guid and path every other shape the two patterns tell apart (the key's
\* header line, a GUID alone, text before or after the GUID, no path).
RegLinesOver(guids, paths) ==
  {RegLine(FALSE, g, FALSE, TRUE, p) : g \in guids, p \in paths}
    \cup {l \in [pre : BOOLEAN, guid : {"", "G1"}, mid : BOOLEAN,
                 regsz : BOOLEAN, path : {<<>>, PathE}] :
            /\ l.guid = "" => ~l.mid /\ ~l.pre /\ ~l.regsz
            /\ ~l.regsz => l.path = <<>> /\ ~l.mid}

RegistryOutputs(lines, n) ==
  {[failed |-> TRUE, lines |-> <<>>]}
    \cup {[failed |-> FALSE, lines |-> ls] : ls \in SeqsUpTo(lines, n)}

ManifestEntriesOver(appNames, paths, displayNames) ==
  {NullEntry}
    \cup {ManifestEntry(<<"Fortnite">>, PathE, <<"Fortnite">>, <<"1.0">>)}
    \cup {ManifestEntry(a, p, d, <<"5.3.2">>) :
            a \in appNames, p \in paths \cup {UndefinedStr}, d \in displayNames}

ManifestFiles(entries, n) ==
  {ManifestFile(k, <<>>) : k \in {"absent", "corrupt", "nolist", "notarray"}}
    \cup {ManifestFile("list", es) : es \in SeqsUpTo(entries, n)}

\* The two manifest locations of getEnginesFromLauncher, with at most n
\* entries between them.
ManifestPairs(entries, n) ==
  UNION {{<<m1, m2>> : m2 \in ManifestFiles(entries, n - Len(m1.entries))} :
           m1 \in ManifestFiles(entries, n)}

Environments(values) == [{envVars[i] : i \in 1..Len(envVars)} -> values]

VersionFilesOver(versions) ==
  {VersionFile(k, Undefined) : k \in {"absent", "corrupt"}}
    \cup {VersionFile("json", v) : v \in versions}

\* The two version files of an installation (UnrealEditor.version, then
\* Build.version): when the first one parses the second is never looked at,
\* so it is left absent.
VersionFilePairs(versions) ==
  {fs \in VersionFilesOver(versions) \X VersionFilesOver(versions) :
     fs[1].kind = "json" => fs[2].kind = "absent"}

\* The version descriptors a universe allows in the directory `path`.
VersionsAt(u, path) ==
  IF path \in DOMAIN u.versions THEN u.versions[path] ELSE {}

ProjectsOver(values) ==
  {fs \in [isDirectory : BOOLEAN, uprojectFiles : 0..1, endsWithUproject : BOOLEAN,
           file : {"unreadable", "corrupt", "json"},
           EngineAssociation : values \cup {UndefinedStr}] :
     /\ ~fs.isDirectory => fs.uprojectFiles = 0
     /\ fs.isDirectory => ~fs.endsWithUproject
     /\ fs.file # "json" => fs.EngineAssociation = UndefinedStr
     /\ (fs.isDirectory /\ fs.uprojectFiles = 0) => fs.file = "unreadable"
     /\ (~fs.isDirectory /\ ~fs.endsWithUproject) => fs.file = "unreadable"}

(***************************************************************************)
(* State.                                                                  *)
(***************************************************************************)
VARIABLES
  pc,                   \* where the call stands (the function about to run)
  entry,                \* the public method that was called
  isWindows,            \* Platform.isWindows()
  projectPath,          \* resolveEngine's argument is a non-empty string
  hostRead,             \* what the step just taken read from the host
  uprojectResult,       \* resolveEngine: what the association reader returned
  uprojectEngine,       \* resolveEngine: the association, or Undefined
  warnings,             \* resolveEngine: the warnings collected so far
  installations,        \* findEngineInstallations: the probes' installations
  envEngine,            \* findEngineInstallations: the environment probe's answer
  uniqueInstallations,  \* positions of installations: the array that is
                        \* de-duplicated, returned, and sorted by resolveEngine
  loaded,               \* how many of uniqueInstallations had their version loaded
  result                \* what the called method returned, or how it raised

vars == <<pc, entry, isWindows, projectPath, hostRead, uprojectResult,
          uprojectEngine, warnings, installations, envEngine,
          uniqueInstallations, loaded, result>>

NoRead == [source |-> "none"]
NoResult == [pending |-> TRUE]

InitCommon ==
  /\ isWindows \in BOOLEAN
  /\ hostRead = NoRead
  /\ uprojectResult = Undefined
  /\ uprojectEngine = Undefined
  /\ warnings = <<>>
  /\ installations = <<>>
  /\ envEngine = Undefined
  /\ uniqueInstallations = <<>>
  /\ loaded = 0
  /\ result = NoResult

(***************************************************************************)
(* Actions: one per await of the code.                                     *)
(***************************************************************************)
\* resolveEngine, lines 12-23.
ReadAssociation(u) ==
  /\ pc = "resolveEngine"
  /\ pc' = "findEngineInstallations"
  /\ IF projectPath
     THEN \E fs \in u.projects :
            LET r == GetEngineAssociationFromProject(fs)
            IN /\ hostRead' = [source |-> "project", fs |-> fs]
               /\ uprojectResult' = r
               /\ uprojectEngine' = r.association
               /\ warnings' = warnings \o r.warnings
     ELSE UNCHANGED <<hostRead, uprojectResult, uprojectEngine, warnings>>
  /\ UNCHANGED <<entry, isWindows, projectPath, installations, envEngine,
                 uniqueInstallations, loaded, result>>

\* findEngineInstallations, lines 122-125.
RegistryProbe(u) ==
  /\ pc = "findEngineInstallations"
  /\ isWindows
  /\ \E out \in RegistryOutputs(u.regLines, u.cap) :
       /\ hostRead' = [source |-> "registry", failed |-> out.failed]
       /\ installations' = installations \o GetEnginesFromRegistry(out)
  /\ pc' = "getEnginesFromLauncher"
  /\ UNCHANGED <<entry, isWindows, projectPath, uprojectResult, uprojectEngine,
                 warnings, envEngine, uniqueInstallations, loaded, result>>

\* findEngineInstallations, lines 127-129.
LauncherProbe(u) ==
  /\ pc = "getEnginesFromLauncher"
  /\ \E manifests \in ManifestPairs(u.manifestEntries, u.cap - Len(installations)) :
       /\ hostRead' = [source |-> "launcher",
                       kinds |-> <<manifests[1].kind, manifests[2].kind>>]
       /\ installations' = installations \o GetEnginesFromLauncher(manifests)
  /\ pc' = "getEngineFromEnvironment"
  /\ UNCHANGED <<entry, isWindows, projectPath, uprojectResult, uprojectEngine,
                 warnings, envEngine, uniqueInstallations, loaded, result>>

\* findEngineInstallations, lines 132-136.
EnvironmentProbe(u) ==
  /\ \/ pc = "getEngineFromEnvironment"
     \/ pc = "findEngineInstallations" /\ ~isWindows
  /\ \E env \in Environments(u.envValues), existing \in SUBSET (u.envValues \ {<<>>}) :
       LET found == GetEngineFromEnvironment(env, existing)
       IN /\ hostRead' = [source |-> "environment", env |-> env, existing |-> existing]
          /\ envEngine' = IF found = <<>> THEN Undefined ELSE found[1]
          /\ installations' = installations \o found
  /\ pc' = "removeDuplicateEngines"
  /\ UNCHANGED <<entry, isWindows, projectPath, uprojectResult, uprojectEngine,
                 warnings, uniqueInstallations, loaded, result>>

\* findEngineInstallations, line 139; when path.normalize raises, the raise
\* leaves findEngineInstallations and, under resolveEngine, lands in its catch.
RemoveDuplicates ==
  /\ pc = "removeDuplicateEngines"
  /\ hostRead' = NoRead
  /\ IF Throws(installations)
     THEN /\ UNCHANGED uniqueInstallations
          /\ IF entry = "resolveEngine"
             THEN /\ result' = ErrorResult(PathTypeError, warnings)
                  /\ pc' = "done"
             ELSE /\ result' = [raised |-> PathTypeError]
                  /\ pc' = "done"
     ELSE /\ uniqueInstallations' = RemoveDuplicateEngines(installations)
          /\ pc' = "loadEngineVersionInfo"
          /\ UNCHANGED result
  /\ UNCHANGED <<entry, isWindows, projectPath, uprojectResult, uprojectEngine,
                 warnings, installations, envEngine, loaded>>

\* findEngineInstallations, lines 142-144: one turn of the loop.
LoadVersion(u) ==
  /\ pc = "loadEngineVersionInfo"
  /\ loaded < Len(uniqueInstallations)
  /\ LET i == uniqueInstallations[loaded + 1]
     IN \E files \in VersionFilePairs(VersionsAt(u, installations[i].path)) :
          /\ hostRead' = [source |-> "version",
                          parsed |-> \E k \in 1..2 : files[k].kind = "json",
                          before |-> installations[i]]
          /\ installations' =
               [installations EXCEPT ![i] = LoadEngineVersionInfo(installations[i], files)]
  /\ loaded' = loaded + 1
  /\ UNCHANGED <<pc, entry, isWindows, projectPath, uprojectResult, uprojectEngine,
                 warnings, envEngine, uniqueInstallations, result>>

\* findEngineInstallations returns to resolveEngine, which runs lines 28-52.
Resolve ==
  /\ pc = "loadEngineVersionInfo"
  /\ loaded = Len(uniqueInstallations)
  /\ entry = "resolveEngine"
  /\ LET r == Resolution(uprojectEngine, installations, uniqueInstallations, warnings)
     IN /\ uniqueInstallations' = r.engineInstallations
        /\ warnings' = r.result.warnings
        /\ result' = r.result
  /\ hostRead' = NoRead
  /\ pc' = "done"
  /\ UNCHANGED <<entry, isWindows, projectPath, uprojectResult, uprojectEngine,
                 installations, envEngine, loaded>>

\* findEngineInstallations returns to a caller other than resolveEngine (line 146).
ReturnInstallations ==
  /\ pc = "loadEngineVersionInfo"
  /\ loaded = Len(uniqueInstallations)
  /\ entry = "findEngineInstallations"
  /\ result' = [returned |-> [k \in 1..Len(uniqueInstallations) |->
                                installations[uniqueInstallations[k]]]]
  /\ hostRead' = NoRead
  /\ pc' = "done"
  /\ UNCHANGED <<entry, isWindows, projectPath, uprojectResult, uprojectEngine,
                 warnings, installations, envEngine, uniqueInstallations, loaded>>

(***************************************************************************)
(* Specifications.                                                         *)
(***************************************************************************)
\* resolveEngine(projectPath).
MaxCandidates == 3

ResolveUniverse ==
  [cap |-> MaxCandidates,
   projects |-> ProjectsOver({<<>>, GuidInstalled, GuidMissing, <<"UE_5">>}),
   regLines |-> RegLinesOver({"G1", "G2"}, {PathUE53, PathE}),
   manifestEntries |-> ManifestEntriesOver({<<"UE_5">>}, {PathUE427}, {UndefinedStr}),
   envValues |-> {<<>>, PathUE5},
   versions |-> (PathUE53 :> {VersionInfo(5, 3, 0, 7)})
                  @@ (PathE :> {VersionInfo(5, 3, 0, 7), VersionInfo(5, 3, 1, 0)})
                  @@ (PathUE427 :> {VersionInfo(4, 27, 2, 9)})
                  @@ (PathUE5 :> {VersionInfo(5, 4, 1, 0)})]

Init ==
  /\ pc = "resolveEngine"
  /\ entry = "resolveEngine"
  /\ projectPath \in BOOLEAN
  /\ InitCommon

Next ==
  \/ ReadAssociation(ResolveUniverse)
  \/ RegistryProbe(ResolveUniverse)
  \/ LauncherProbe(ResolveUniverse)
  \/ EnvironmentProbe(ResolveUniverse)
  \/ RemoveDuplicates
  \/ LoadVersion(ResolveUniverse)
  \/ Resolve

Spec == Init /\ [][Next]_vars

\* findEngineInstallations(), called on its own.
MaxEntries == 3

FindUniverse ==
  [cap |-> MaxEntries,
   projects |-> {},
   regLines |-> RegLinesOver({"G1"}, {PathUE53, PathUE427}),
   manifestEntries |-> ManifestEntriesOver({<<"UE_4">>, <<"UE_5">>},
                                           {PathUe53, PathUE5_4_1},
                                           {<<"Unreal Engine">>}),
   envValues |-> {<<>>, PathDotUE53, PathE},
   versions |-> (PathUE53 :> {VersionInfo(5, 3, 0, 7)})]

InitFind ==
  /\ pc = "findEngineInstallations"
  /\ entry = "findEngineInstallations"
  /\ projectPath = FALSE
  /\ InitCommon

NextFind ==
  \/ RegistryProbe(FindUniverse)
  \/ LauncherProbe(FindUniverse)
  \/ EnvironmentProbe(FindUniverse)
  \/ RemoveDuplicates
  \/ LoadVersion(FindUniverse)
  \/ ReturnInstallations

SpecFind == InitFind /\ [][NextFind]_vars

(***************************************************************************)
(* Properties.                                                             *)
(***************************************************************************)
\* resolveEngine has returned.
Resolved == pc = "done" /\ entry = "resolveEngine"

\* The positions of the candidates: the de-duplicated list, whatever its order.
Candidates == {uniqueInstallations[k] : k \in 1..Len(uniqueInstallations)}

\* The candidates whose associationId is the project's guid.
Matching == {i \in Candidates : installations[i].associationId = uprojectEngine.guid}

\* The warnings the association reader produced.
ReaderWarnings == IF uprojectResult = Undefined THEN <<>> ELSE uprojectResult.warnings

IsFallbackWarning(w) == w[Len(w)] = " (not associated with project)"
IsNotFoundWarning(w) == w[Len(w)] = " not found in installed engines"

Least(S) == CHOOSE i \in S : \A j \in S : i <= j

\* How many of the warnings w are fallback / "not found" warnings.
FallbackWarnings(w) == Cardinality({k \in 1..Len(w) : IsFallbackWarning(w[k])})
NotFoundWarnings(w) == Cardinality({k \in 1..Len(w) : IsNotFoundWarning(w[k])})

\* How many times the message m occurs in the warnings w.
Occurrences(w, m) == Cardinality({k \in 1..Len(w) : w[k] = m})

\* C1: when the project's association has guid g and some candidate has
\* associationId g, resolveEngine returns the first such candidate in
\* de-duplicated discovery order, whatever the versions of the others, and
\* its warnings are exactly the association reader's: neither the "not found in
\* installed engines" nor the "(not associated with project)" warning is added.
C1_ExactMatchIsReturned ==
  (Resolved /\ uprojectEngine # Undefined /\ Matching # {}) =>
    /\ result.engine = installations[Least(Matching)]
    /\ result.warnings = ReaderWarnings
    /\ FallbackWarnings(result.warnings) = 0
    /\ NotFoundWarnings(result.warnings) = 0
    /\ result.error = UndefinedStr

\* C1 witness: two candidates carry the guid and a candidate that does not has
\* a newer version than the one returned.
C1_Witness ==
  /\ Resolved /\ uprojectEngine # Undefined
  /\ Cardinality(Matching) >= 2
  /\ \E c \in Candidates \ Matching :
       CompareVersions(installations[c].version, result.engine.version) > 0

\* C2: with at least one candidate and an association whose non-empty guid g no
\* candidate carries, the returned engine is a candidate that no candidate
\* exceeds under the version comparator, and the warnings end with the "not
\* found" message naming g followed by the "(not associated with project)"
\* message for that engine, each occurring once.
C2_UnmatchedFallsBackWithBothWarnings ==
  (/\ Resolved /\ Len(uniqueInstallations) > 0
   /\ uprojectEngine # Undefined /\ Truthy(uprojectEngine.guid) /\ Matching = {}) =>
    LET w == result.warnings
        n == Len(w)
        notFound == (<<"Engine with association ID ">> \o uprojectEngine.guid)
                      \o <<" not found in installed engines">>
        using == (<<"Using engine ">> \o result.engine.displayName)
                   \o <<" (not associated with project)">>
    IN /\ \E i \in Candidates :
            /\ result.engine = installations[i]
            /\ \A j \in Candidates :
                 CompareVersions(installations[j].version, installations[i].version) <= 0
       /\ n >= 2 /\ w[n - 1] = notFound /\ w[n] = using
       /\ Occurrences(w, notFound) = 1 /\ Occurrences(w, using) = 1

\* C2 witness: several candidates, none with the guid, and the engine returned
\* is not the first one discovered.
C2_Witness ==
  /\ Resolved /\ Len(uniqueInstallations) >= 2
  /\ uprojectEngine # Undefined /\ Truthy(uprojectEngine.guid) /\ Matching = {}
  /\ result.engine # installations[Least(Candidates)]

\* The order of the claim C4: lexicographic on (major, minor, patch,
\* changelist), no version strictly below every version.
VersionKey(v) == <<v.MajorVersion, v.MinorVersion, v.PatchVersion, v.Changelist>>

LexBelow(a, b) ==
  IF a = Undefined THEN b # Undefined
  ELSE IF b = Undefined THEN FALSE
  ELSE \E k \in 1..4 :
         /\ VersionKey(a)[k] < VersionKey(b)[k]
         /\ \A j \in 1..(k - 1) : VersionKey(a)[j] = VersionKey(b)[j]

Fallback ==
  /\ Resolved /\ Len(uniqueInstallations) > 0
  /\ (uprojectEngine = Undefined \/ Matching = {})

\* C4: in the fallback phase (candidates exist and there is no association or
\* no candidate carries its guid) the engine returned is a candidate that is
\* maximal in the lexicographic order on (major, minor, patch, changelist) with
\* "no version" at the bottom, every candidate discovered before it is strictly
\* below it, and exactly one "(not associated with project)" warning is present.
C4_FallbackPicksEarliestMaximal ==
  Fallback =>
    /\ \E i \in Candidates :
         /\ result.engine = installations[i]
         /\ \A j \in Candidates :
              /\ ~LexBelow(installations[i].version, installations[j].version)
              /\ j < i => LexBelow(installations[j].version, installations[i].version)
    /\ FallbackWarnings(result.warnings) = 1

\* C4 witness: the engine returned ties with a later candidate, a candidate
\* without a version exists, and one with a version is below the engine.
C4_Witness ==
  /\ Fallback
  /\ \E i, j, k, l \in Candidates :
       /\ result.engine = installations[i]
       /\ i < j /\ installations[j].version = installations[i].version
       /\ installations[k].version = Undefined
       /\ installations[l].version # Undefined
       /\ LexBelow(installations[l].version, installations[i].version)

\* C5: when discovery yields no candidate, for every project path (none, one
\* with an association, one the reader cannot use) resolveEngine runs to its
\* return, and what it returns has no engine, no error, no "(not associated
\* with project)" warning, and exactly the association reader's warnings.
C5_NoCandidates ==
  /\ (Resolved /\ installations = <<>>) =>
       /\ result.engine = Undefined
       /\ result.error = UndefinedStr
       /\ result.warnings = ReaderWarnings
       /\ FallbackWarnings(result.warnings) = 0
  /\ (/\ entry = "resolveEngine" /\ installations = <<>>
      /\ pc \in {"removeDuplicateEngines", "loadEngineVersionInfo"}) =>
       ENABLED (RemoveDuplicates \/ Resolve)

\* C5 witness: nothing was discovered although the project names an engine.
C5_Witness ==
  /\ Resolved /\ installations = <<>>
  /\ uprojectEngine # Undefined /\ Truthy(uprojectEngine.guid)

\* The "not found" message naming the project's guid is among the warnings and
\* the result has no error.
NamesMissingGuid ==
  /\ \E k \in 1..Len(result.warnings) :
       result.warnings[k] = (<<"Engine with association ID ">> \o uprojectEngine.guid)
                              \o <<" not found in installed engines">>
  /\ result.error = UndefinedStr

\* C6 as claimed: for a candidate list of any size, an association with a
\* non-empty guid that no candidate carries yields the "not found" warning
\* naming the guid, and no error.
C6_Original ==
  (/\ Resolved /\ ~Throws(installations)
   /\ uprojectEngine # Undefined /\ Truthy(uprojectEngine.guid) /\ Matching = {}) =>
    NamesMissingGuid

\* C6 amended: for every non-empty candidate list, an association with a
\* non-empty guid that no candidate carries yields the "not found" warning
\* naming the guid, and no error.
C6_Amended ==
  (/\ Resolved /\ Len(uniqueInstallations) > 0
   /\ uprojectEngine # Undefined /\ Truthy(uprojectEngine.guid) /\ Matching = {}) =>
    NamesMissingGuid

\* C6 witness: a single candidate, which does not carry the project's guid.
C6_Witness ==
  /\ Resolved /\ Len(uniqueInstallations) = 1
  /\ uprojectEngine # Undefined /\ Truthy(uprojectEngine.guid) /\ Matching = {}
  /\ Len(result.warnings) = 2

\* C7: whatever the registry output and the launcher manifests hold (corrupt
\* JSON, no installation list, kept entries without an install location),
\* resolveEngine's result has no error, and its warnings are only the
\* association reader's followed by the match and fallback warnings.
C7_MalformedSourcesNeverFail ==
  Resolved =>
    /\ result.error = UndefinedStr
    /\ \A k \in 1..Len(result.warnings) :
         \/ k <= Len(ReaderWarnings) /\ result.warnings[k] = ReaderWarnings[k]
         \/ IsNotFoundWarning(result.warnings[k])
         \/ IsFallbackWarning(result.warnings[k])

\* C8: the environment probe answers with the first of UE_ENGINE_PATH, UE_ROOT,
\* UNREAL_ENGINE_PATH whose value is non-empty and an existing path: the
\* installation's path is that value and its associationId is "ENV_" and the
\* variable's name; later variables do not count; with no such variable the
\* probe answers nothing.
C8_FirstValidVariableWins ==
  hostRead.source = "environment" =>
    LET order == <<"UE_ENGINE_PATH", "UE_ROOT", "UNREAL_ENGINE_PATH">>
        Valid(i) == hostRead.env[order[i]] # <<>>
                      /\ hostRead.env[order[i]] \in hostRead.existing
    IN IF \A i \in 1..3 : ~Valid(i)
       THEN envEngine = Undefined
       ELSE \E i \in 1..3 :
              /\ Valid(i) /\ \A j \in 1..(i - 1) : ~Valid(j)
              /\ envEngine # Undefined
              /\ envEngine.path = hostRead.env[order[i]]
              /\ envEngine.associationId = <<"ENV_", order[i]>>

\* C8 witness: the first variable is empty, the second and the third hold two
\* different existing paths.
C8_Witness ==
  /\ hostRead.source = "environment"
  /\ hostRead.env["UE_ENGINE_PATH"] = <<>>
  /\ hostRead.env["UE_ROOT"] \in hostRead.existing
  /\ hostRead.env["UNREAL_ENGINE_PATH"] \in hostRead.existing
  /\ hostRead.env["UNREAL_ENGINE_PATH"] # hostRead.env["UE_ROOT"]
  /\ envEngine # Undefined

\* The key of the claim C3: the normalised path, lower-cased.
PathKey(installation) == ToLowerCase(Normalize(installation.path))

\* C3: the list findEngineInstallations returns holds no two installations with
\* the same normalised lower-cased path; it holds, for every such path among
\* the probes' installations (registry, then manifest, then environment), the
\* first installation with that path and no other; and it keeps their order.
C3_FirstOccurrencePerPath ==
  (pc = "done" /\ entry = "findEngineInstallations" /\ "returned" \in DOMAIN result) =>
    LET out == result.returned
        at == uniqueInstallations
    IN /\ \A j, k \in 1..Len(out) : j # k => PathKey(out[j]) # PathKey(out[k])
       /\ Len(at) = Len(out)
       /\ \A k \in 1..Len(out) : out[k] = installations[at[k]]
       /\ \A k \in 1..(Len(at) - 1) : at[k] < at[k + 1]
       /\ \A i \in 1..Len(installations) :
            (\E k \in 1..Len(at) : at[k] = i)
              <=> (\A j \in 1..(i - 1) :
                     PathKey(installations[j]) # PathKey(installations[i]))

\* C3 witness: a registry entry, a later manifest entry whose path differs in
\* case only, and a later environment entry whose path differs before
\* normalisation only; the list returned has another installation as well.
C3_Witness ==
  /\ pc = "done" /\ entry = "findEngineInstallations" /\ "returned" \in DOMAIN result
  /\ Len(result.returned) >= 2
  /\ \E i, j, k \in 1..Len(installations) :
       /\ i < j /\ j < k
       /\ installations[i].path = PathUE53
       /\ installations[j].path = PathUe53
       /\ installations[k].path = PathDotUE53

\* C9: the reader returns the association {guid: s, name: s} and no warning for
\* every descriptor it can read and parse whose engine-association field holds
\* a string s, whatever the string; it returns no association, and a warning,
\* only when the field is missing, the path is neither a directory nor a
\* descriptor, the directory holds no descriptor, or reading or parsing fails.
C9_AnyStringIsAnAssociation ==
  hostRead.source = "project" =>
    LET fs == hostRead.fs
        parsed == /\ (fs.isDirectory /\ fs.uprojectFiles > 0) \/ fs.endsWithUproject
                  /\ fs.file = "json"
        s == fs.EngineAssociation
    IN /\ (parsed /\ s # UndefinedStr) =>
            uprojectResult = [association |-> [guid |-> s, name |-> s],
                              warnings |-> <<>>]
       /\ uprojectResult.association = Undefined =>
            /\ Len(uprojectResult.warnings) = 1
            /\ ~parsed \/ s = UndefinedStr

\* The token UE_<M>.<m> or UE_<M>.<m>.<p> of the claim C10 at position i of a
\* path: <<M, m, p>>, or <<>> when there is none there.
TokenAt(s, i) ==
  IF /\ i + 5 <= Len(s)
     /\ s[i] \in {"U", "u"} /\ s[i + 1] \in {"E", "e"} /\ s[i + 2] = "_"
     /\ s[i + 3] \in {"4", "5"}
     /\ s[i + 4] \in {".", "_"}
     /\ DigitRun(s, i + 5) > 0
  THEN LET m == DigitRun(s, i + 5)
           q == i + 5 + m
           hasPatch == q + 1 <= Len(s) /\ s[q] \in {".", "_"} /\ DigitRun(s, q + 1) > 0
       IN <<DigitVal(s[i + 3]),
            DigitsValue(SubSeq(s, i + 5, q - 1), 0),
            IF hasPatch
            THEN DigitsValue(SubSeq(s, q + 1, q + DigitRun(s, q + 1)), 0)
            ELSE 0>>
  ELSE <<>>

Token(s) ==
  IF \A i \in 1..Len(s) : TokenAt(s, i) = <<>>
  THEN <<>>
  ELSE TokenAt(s, CHOOSE i \in 1..Len(s) :
                    TokenAt(s, i) # <<>> /\ \A j \in 1..(i - 1) : TokenAt(s, j) = <<>>)

\* C10: when neither version file of an installation parses, a path with the
\* token UE_<M>.<m> or UE_<M>.<m>.<p> gives the version major M, minor m, patch
\* p (0 when absent) with changelist and the promotion and licensee fields 0;
\* a path without the token leaves the version unset and the displayName as
\* it was.  Hence, when every candidate's version comes from its path and a
\* 5.x candidate exists, the fallback does not return a 4.y candidate.
C10_PathVersionKeepsMajor ==
  /\ (hostRead.source = "version" /\ ~hostRead.parsed) =>
       LET before == hostRead.before
           after == installations[uniqueInstallations[loaded]]
           t == Token(before.path)
       IN IF t # <<>>
          THEN after.version = VersionInfo(t[1], t[2], t[3], 0)
          ELSE after.version = Undefined /\ after.displayName = before.displayName
  /\ (/\ Fallback
      /\ \A i \in Candidates :
           /\ PathMatch(installations[i].path) # <<>>
           /\ installations[i].version
                = VersionFromPath(PathMatch(installations[i].path)[1]).version) =>
       ((\E i \in Candidates : Token(installations[i].path)[1] = 5)
          => Token(result.engine.path)[1] = 5)

====
